---------------------------- MODULE Spec2Model ----------------------------
(***************************************************************************)
(* Model of the lecture builder in server_Project/cwd_v2: the planner      *)
(* (PDFStructureAnalyst.analyze), the parallel dispatcher                  *)
(* (Delegator.run_parallel_generation over utils.parallel_map), the merge  *)
(* (utils.md_join / MarkdownFormatterAgent.format), the verifier           *)
(* (FeedbackFactCheckerAgent.verify and _decide), the revision passes      *)
(* (Delegator.revise_parts / revise_selected_parts) and the feedback loop  *)
(* of Coordinator.run_build.                                               *)
(*                                                                         *)
(* Texts are abstracted by what the code reads of them:                    *)
(*   - a plan text is the sequence of its lines (text.splitlines());       *)
(*   - a verifier response is its JSON shape: not JSON at all (with the    *)
(*     keywords the fallback scans for), valid JSON that is no object, or  *)
(*     an object with the five fields the code reads;                      *)
(*   - a generated section text is one of GenTexts;                        *)
(*   - overlap_ratio is kept in hundredths (0.25 is 25).                   *)
(***************************************************************************)
EXTENDS Integers, Sequences, FiniteSets, TLC

VARIABLES
    pc,                 \* position of run_build
    max_feedback_loops, \* Coordinator.max_feedback_loops (coerced)
    formatting,         \* Coordinator.formatting (coerced)
    plans,              \* run_build: plans
    futures,            \* parallel_map: one future per task
    results,            \* parallel_map: results, in completion order
    order,              \* task index of each entry of results
    parts,              \* run_build: parts
    md,                 \* run_build: md
    mdVerified,         \* md has been passed to verify since it was assigned
    resp,               \* text of the Gateway's answer to the last verify call
    lastStatus,         \* status verify returned last ("raised": it raised)
    feedback,           \* run_build: feedback
    loops,              \* run_build: loops
    artifact,           \* content written to the output file
    verifyCalls,        \* number of feedback_agent.verify calls
    revisePasses,       \* number of revision passes of run_build
    regenCalls,         \* sections regenerated since the last verify call
    gatewayFailed,      \* some Gateway call (upload, activation, ask) raised
    planText,           \* analyze: text, the Gateway's answer, until the plan is dispatched
    genOut,             \* outcome of each worker.generate() of a revision pass run alone
    genAsked,           \* prompt of each worker.generate() of a revision pass run alone
    failure             \* where run_build raised ("none": it did not)

vars == << pc, max_feedback_loops, formatting, plans, futures, results, order,
           parts, md, mdVerified, resp, lastStatus, feedback, loops, artifact,
           verifyCalls, revisePasses, regenCalls, gatewayFailed, failure,
          planText, genOut, genAsked >>

\* what only a revision pass run alone records
scratch == << genOut, genAsked >>

---------------------------------------------------------------------------
(* Bounds of the model *)

\* longest plan text (in lines) the Gateway returns in a build
MaxPlanLines == 2
\* largest --max-feedback-loops given to a build
MaxLoopsInput == 2
\* longest section list given to md_join alone
MaxMergeLen == 3

(* Program constants *)

LoopsFloor == 0
MinWorkers == 2
MaxWorkers == 6
HallucinationCeiling == 3
LenientOverlap == 25
LenientHallucinations == 1

Title == "T"

---------------------------------------------------------------------------
(* Generic helpers *)

Max(a, b) == IF a >= b THEN a ELSE b
Min(a, b) == IF a <= b THEN a ELSE b

Range(s) == { s[i] : i \in DOMAIN s }

RECURSIVE SeqsUpTo(_, _)
SeqsUpTo(S, n) ==
    IF n = 0 THEN { << >> }
    ELSE LET shorter == SeqsUpTo(S, n - 1)
         IN  shorter \cup { Append(s, x) : s \in { t \in shorter : Len(t) = n - 1 }, x \in S }

---------------------------------------------------------------------------
(* Section keys and their order *)

DefaultLines == << "1. Overview", "2. Key Concepts", "3. Summary" >>

\* Python compares the keys as strings; the rank is that order on the keys used.
KeyRank(k) ==
    CASE k = "1. Overview"     -> 1
      [] k = "2. Key Concepts" -> 2
      [] k = "3. Summary"      -> 3
      [] k = "A"               -> 4
      [] k = "B"               -> 5
      [] OTHER                 -> 6

\* str.strip() on the lines and keys used
Strip(s) ==
    CASE s = "  "  -> ""
      [] s = " A " -> "A"
      [] OTHER     -> s

\* str.lower() on the decision values used
Lower(s) ==
    CASE s = "OK"    -> "ok"
      [] s = "Abort" -> "abort"
      [] OTHER       -> s

---------------------------------------------------------------------------
(* PDFStructureAnalyst.analyze *)

RECURSIVE StripLines(_)
StripLines(text) ==
    IF text = << >> THEN << >>
    ELSE LET l == Strip(Head(text))
         IN  IF l # "" THEN << l >> \o StripLines(Tail(text))
             ELSE StripLines(Tail(text))

SectionPlan(line) == [ key |-> line, prompt |-> << "lecture text for", line >> ]

\* a planner without the default: no usable line, no plan
analyze_nodefault(text) ==
    [ i \in 1..Len(StripLines(text)) |-> SectionPlan(StripLines(text)[i]) ]

analyze(text) ==
    LET stripped == StripLines(text)
        lines == IF stripped = << >> THEN DefaultLines ELSE stripped
    IN  [ i \in 1..Len(lines) |-> SectionPlan(lines[i]) ]

---------------------------------------------------------------------------
(* utils.md_join *)

\* sorted(parts, key=lambda x: x[0]): stable insertion by key
RECURSIVE InsertSorted(_, _)
InsertSorted(p, s) ==
    IF s = << >> THEN << p >>
    ELSE IF KeyRank(p[1]) < KeyRank(Head(s)[1]) THEN << p >> \o s
         ELSE << Head(s) >> \o InsertSorted(p, Tail(s))

RECURSIVE SortByKey(_)
SortByKey(ps) ==
    IF ps = << >> THEN << >>
    ELSE InsertSorted(ps[Len(ps)], SortByKey(SubSeq(ps, 1, Len(ps) - 1)))

\* a join that keeps the order it is given
md_join_unsorted(title, ps) ==
    [ kind |-> "joined", title |-> title, sections |-> ps, edit |-> "" ]

md_join(title, ps) ==
    [ kind |-> "joined", title |-> title, sections |-> SortByKey(ps), edit |-> "" ]

\* the text the Gateway returns for a polish request
Polished(p) == [ kind |-> "polished", title |-> "", sections |-> << >>, edit |-> p ]

NoDraft == [ kind |-> "none", title |-> "", sections |-> << >>, edit |-> "" ]

---------------------------------------------------------------------------
(* Gateway answers to a verify call *)

Keywords == { "abort", "pass", "ok", "approve_kr" }

Absent == [ t |-> "absent", v |-> 0 ]
Num(n) == [ t |-> "num", v |-> n ]
Bad == [ t |-> "bad", v |-> 0 ]

\* one element of "targets"
DictTarget(k, s, n, notes) ==
    [ t |-> "dict", key |-> k, section |-> s, name |-> n, notes |-> notes ]
StrTarget(k) == [ t |-> "str", key |-> k, section |-> "", name |-> "", notes |-> "" ]
NumTarget == [ t |-> "num", key |-> "", section |-> "", name |-> "", notes |-> "" ]

\* a JSON list of targets; NotAList is a truthy value that is no list (a number)
TargetList(items) == [ list |-> TRUE, items |-> items ]
NoTargets == TargetList(<< >>)
NotAList == [ list |-> FALSE, items |-> << >> ]

\* one reason: a string that contains the keys in "mentions", or no string
Reason(text, mentions) == [ isstr |-> TRUE, text |-> text, mentions |-> mentions ]
NumReason == [ isstr |-> FALSE, text |-> "", mentions |-> {} ]

NoReasons == [ t |-> "absent", items |-> << >> ]
StrReasons(r) == [ t |-> "str", items |-> << r >> ]
ListReasons(rs) == [ t |-> "list", items |-> rs ]
NumReasons == [ t |-> "num", items |-> << >> ]

TextResponse(words) ==
    [ kind |-> "text", words |-> words, decision |-> "", overlap |-> Absent,
      hcount |-> Absent, targets |-> NoTargets, reasons |-> NoReasons ]

\* valid JSON that is no object: "array", "number", "string", "null"
OtherJson(what) ==
    [ kind |-> what, words |-> {}, decision |-> "", overlap |-> Absent,
      hcount |-> Absent, targets |-> NoTargets, reasons |-> NoReasons ]

ObjectResponse(decision, overlap, hcount, targets, reasons) ==
    [ kind |-> "object", words |-> {}, decision |-> decision, overlap |-> overlap,
      hcount |-> hcount, targets |-> targets, reasons |-> reasons ]

Decisions == { "pass", "OK", "revise", "Abort", "abort", "" }
Overlaps == { Absent, Num(10), Num(25), Num(60), Bad }
HCounts == { Absent, Num(1), Num(2), Num(3), Num(5), Bad }
TargetChoices ==
    { NoTargets,
      NotAList,
      TargetList(<< DictTarget("1. Overview", "", "", "fix") >>),
      TargetList(<< DictTarget(" A ", "", "", "") >>),
      TargetList(<< DictTarget("", "B", "", "fix"), NumTarget >>),
      TargetList(<< StrTarget("A"), DictTarget("", "", "", "fix") >>),
      TargetList(<< DictTarget("Z", "", "", "fix") >>),
      TargetList(<< DictTarget("", "", "", "fix") >>) }
ReasonChoices ==
    { NoReasons,
      NumReasons,
      StrReasons(Reason("r1", { "A", "2. Key Concepts" })),
      ListReasons(<< NumReason, Reason("r2", { "B" }), Reason("r3", { "A", "B" }) >>) }

AllResponses ==
    { TextResponse(w) : w \in SUBSET Keywords }
    \cup { OtherJson(k) : k \in { "array", "number", "string", "null" } }
    \cup { ObjectResponse(d, o, h, t, r) :
             d \in Decisions, o \in Overlaps, h \in HCounts,
             t \in TargetChoices, r \in ReasonChoices }

---------------------------------------------------------------------------
(* FeedbackFactCheckerAgent._decide *)

\* float(x or 0.0) and int(x or 0) raise on a value that is no number
DecideRaises(payload) == payload.overlap.t = "bad" \/ payload.hcount.t = "bad"

Metrics(payload) ==
    [ overlap_ratio |-> payload.overlap.v, hallucination_count |-> payload.hcount.v ]

\* a policy whose lenient band starts above the threshold, not at it
_decide_above(payload) ==
    LET overlap == payload.overlap.v
        hcount == payload.hcount.v
        decision == Lower(payload.decision)
        status ==
            IF decision \in { "pass", "ok" } THEN "ok"
            ELSE IF decision = "abort" \/ hcount >= HallucinationCeiling THEN "abort"
            ELSE IF overlap > LenientOverlap /\ hcount <= LenientHallucinations THEN "ok"
            ELSE "needs_revision"
    IN  [ status |-> status, metrics |-> Metrics(payload) ]

_decide(payload) ==
    LET overlap == payload.overlap.v
        hcount == payload.hcount.v
        decision == Lower(payload.decision)
        status ==
            IF decision \in { "pass", "ok" } THEN "ok"
            ELSE IF decision = "abort" \/ hcount >= HallucinationCeiling THEN "abort"
            ELSE IF overlap >= LenientOverlap /\ hcount <= LenientHallucinations THEN "ok"
            ELSE "needs_revision"
    IN  [ status |-> status, metrics |-> Metrics(payload) ]

---------------------------------------------------------------------------
(* FeedbackFactCheckerAgent.verify *)

NoMetrics == [ overlap_ratio |-> 0, hallucination_count |-> 0 ]

\* "raw" is the answer's text; strict: the STRICT_REWRITE message is appended
Verdict(status, text, targets, metrics) ==
    [ raised |-> FALSE, status |-> status, raw |-> [ text |-> text, strict |-> FALSE ],
      targets |-> targets, metrics |-> metrics ]

Raised(text) ==
    [ raised |-> TRUE, status |-> "raised", raw |-> [ text |-> text, strict |-> FALSE ],
      targets |-> NoTargets, metrics |-> NoMetrics ]

\* the keyword fallback taken when json.loads raises
fallback_status(words) ==
    IF "abort" \in words THEN "abort"
    ELSE IF words \cap { "pass", "approve_kr", "ok" } # {} THEN "ok"
    ELSE "needs_revision"

Truthy(targets) == ~targets.list \/ targets.items # << >>

\* the first reason string that contains the key, if any
RECURSIVE FirstMention(_, _)
FirstMention(sk, rs) ==
    IF rs = << >> THEN << >>
    ELSE IF Head(rs).isstr /\ sk \in Head(rs).mentions THEN << Head(rs) >>
         ELSE FirstMention(sk, Tail(rs))

RECURSIVE Matched(_, _)
Matched(section_keys, rs) ==
    IF section_keys = << >> THEN << >>
    ELSE LET m == FirstMention(Head(section_keys), rs)
             rest == Matched(Tail(section_keys), rs)
         IN  IF m = << >> THEN rest
             ELSE << DictTarget(Head(section_keys), "", "", m[1].text) >> \o rest

verify(text, section_keys) ==
    IF text.kind = "text"
    THEN Verdict(fallback_status(text.words), text, NoTargets, NoMetrics)
    ELSE IF text.kind # "object" \/ DecideRaises(text)
    THEN Raised(text)
    ELSE IF Truthy(text.targets)
    THEN Verdict(_decide(text).status, text, text.targets, _decide(text).metrics)
    ELSE IF text.reasons.t = "num" /\ section_keys # << >>
    THEN Raised(text)
    ELSE Verdict(_decide(text).status, text,
                 TargetList(Matched(section_keys, text.reasons.items)),
                 _decide(text).metrics)

---------------------------------------------------------------------------
(* Delegator.revise_parts and Delegator.revise_selected_parts *)

GenTexts == { "g1", "g2" }
\* outcome of one ContentCreatorWorker.generate call: a text, or it raises
GenRaises == "raise"
GenOutcomes == GenTexts \cup { GenRaises }

ErrorMarker == "__ERROR__: e"

SectionKeys(ps) == [ i \in 1..Len(ps) |-> ps[i][1] ]

\* t.get("key") or t.get("section") or t.get("name") or ""
FirstName(t) ==
    IF t.key # "" THEN t.key ELSE IF t.section # "" THEN t.section ELSE t.name

RECURSIVE ExtractKeys(_)
ExtractKeys(items) ==
    IF items = << >> THEN << >>
    ELSE LET t == Head(items)
             rest == ExtractKeys(Tail(items))
         IN  IF t.t = "dict"
             THEN IF Strip(FirstName(t)) = "" THEN rest
                  ELSE << Strip(FirstName(t)) >> \o rest
             ELSE IF t.t = "str" THEN << t.key >> \o rest
             ELSE rest

\* iterating over a value that is no list raises
SelectRaises(fb) == ~fb.targets.list

target_keys(fb) == ExtractKeys(fb.targets.items)

\* a pass that takes every section for a target
InTargets_any(key, keys) == TRUE

InTargets(key, keys) == key \in Range(keys)

\* a pass that takes the failure for the section's text
Regenerated_marked(text, outcome) == IF outcome = GenRaises THEN ErrorMarker ELSE outcome

\* the text kept for a section the generator was asked to rewrite
Regenerated(text, outcome) == IF outcome = GenRaises THEN text ELSE outcome

revise_parts(ps, out) ==
    [ i \in 1..Len(ps) |-> << ps[i][1], Regenerated(ps[i][2], out[i]) >> ]

\* a targeted pass without the fallback: no usable target, nothing rewritten
revise_selected_parts_nofallback(ps, fb, out) ==
    [ i \in 1..Len(ps) |->
        IF InTargets(ps[i][1], target_keys(fb))
        THEN << ps[i][1], Regenerated(ps[i][2], out[i]) >>
        ELSE ps[i] ]

revise_selected_parts(ps, fb, out) ==
    IF target_keys(fb) = << >> THEN revise_parts(ps, out)
    ELSE [ i \in 1..Len(ps) |->
             IF InTargets(ps[i][1], target_keys(fb))
             THEN << ps[i][1], Regenerated(ps[i][2], out[i]) >>
             ELSE ps[i] ]

\* the sections (by position) a revision pass calls the generator for
RevisedBySelected(ps, fb) ==
    IF target_keys(fb) = << >> THEN { i : i \in 1..Len(ps) }
    ELSE { i \in 1..Len(ps) : InTargets(ps[i][1], target_keys(fb)) }

\* the user prompt revise_parts builds for one section
revise_prompt(key, feedback_raw, text) ==
    [ section |-> key, feedback |-> feedback_raw, selected |-> FALSE,
      notes |-> "", current |-> text ]

\* the user prompt revise_selected_parts builds for one targeted section
selected_prompt(key, feedback_raw, notes, text) ==
    [ section |-> key, feedback |-> feedback_raw, selected |-> TRUE,
      notes |-> notes, current |-> text ]

\* notes_map.get(key, ""): the notes of the last dict target that names key
\* and carries notes
RECURSIVE notes_map(_, _)
notes_map(items, key) ==
    IF items = << >> THEN ""
    ELSE LET t == items[Len(items)]
             front == SubSeq(items, 1, Len(items) - 1)
         IN  IF t.t = "dict" /\ Strip(FirstName(t)) = key /\ Strip(FirstName(t)) # ""
                /\ Strip(t.notes) # ""
             THEN Strip(t.notes)
             ELSE notes_map(front, key)

\* the prompts of the generate calls of revise_parts, by position
revise_asked(ps, feedback_raw) ==
    [ i \in 1..Len(ps) |-> revise_prompt(ps[i][1], feedback_raw, ps[i][2]) ]

\* the prompts of the generate calls of revise_selected_parts, by position
selected_asked(ps, fb) ==
    IF target_keys(fb) = << >> THEN revise_asked(ps, fb.raw)
    ELSE [ i \in RevisedBySelected(ps, fb) |->
             selected_prompt(ps[i][1], fb.raw, notes_map(fb.targets.items, ps[i][1]),
                             ps[i][2]) ]

---------------------------------------------------------------------------
(* Inputs of a build *)

\* lines of a plan text: blank, padded, plain
PlanLines == { "  ", " A ", "B" }
PlanTexts == SeqsUpTo(PlanLines, MaxPlanLines)

LoopInputs == (0 - 1)..MaxLoopsInput
FormattingInputs == { "none", "NONE", "light", "fancy" }

\* str(formatting).lower() on the inputs used
LowerFormatting(f) == IF f = "NONE" THEN "none" ELSE f

CoerceLoops(n) == Max(LoopsFloor, n)
CoerceFormatting(f) ==
    IF LowerFormatting(f) \in { "none", "light" } THEN LowerFormatting(f) ELSE "light"

PolishTexts == { "", "polished" }

\* answers to verify calls in a build: one of each way through verify and the loop
BuildResponses ==
    { TextResponse({}), TextResponse({ "abort" }), TextResponse({ "ok" }),
      OtherJson("array"),
      ObjectResponse("pass", Num(60), Absent, NoTargets, NoReasons),
      ObjectResponse("pass", Num(10), Num(5), NoTargets, NoReasons),
      ObjectResponse("abort", Absent, Num(5), NoTargets, NoReasons),
      ObjectResponse("revise", Num(60), Num(1), NoTargets, NoReasons),
      ObjectResponse("revise", Num(10), Num(2), NoTargets, NoReasons),
      ObjectResponse("revise", Num(10), Num(2), NotAList, NoReasons),
      ObjectResponse("revise", Num(10), Num(2),
                     TargetList(<< DictTarget("1. Overview", "", "", "fix") >>), NoReasons),
      ObjectResponse("revise", Num(10), Num(2),
                     TargetList(<< DictTarget(" A ", "", "", "") >>), NoReasons),
      ObjectResponse("revise", Num(10), Num(2),
                     TargetList(<< DictTarget("Z", "", "", "fix") >>), NoReasons),
      ObjectResponse("revise", Num(10), Num(2),
                     TargetList(<< DictTarget("", "", "", "fix") >>), NoReasons),
      ObjectResponse("revise", Num(10), Num(2), NoTargets,
                     StrReasons(Reason("r1", { "A", "2. Key Concepts" }))) }

NoResponse == OtherJson("none")
NoFeedback == Verdict("none", NoResponse, NoTargets, NoMetrics)

---------------------------------------------------------------------------
(* Coordinator.__init__ *)

Init ==
    /\ pc = "start"
    /\ max_feedback_loops \in { CoerceLoops(n) : n \in LoopInputs }
    /\ formatting \in { CoerceFormatting(f) : f \in FormattingInputs }
    /\ plans = << >>
    /\ futures = << >>
    /\ results = << >>
    /\ order = << >>
    /\ parts = << >>
    /\ md = NoDraft
    /\ mdVerified = FALSE
    /\ resp = NoResponse
    /\ lastStatus = "none"
    /\ feedback = NoFeedback
    /\ loops = 0
    /\ artifact = NoDraft
    /\ verifyCalls = 0
    /\ revisePasses = 0
    /\ regenCalls = {}
    /\ gatewayFailed = FALSE
    /\ failure = "none"
    /\ planText = << >>
    /\ genOut = << >>
    /\ genAsked = << >>

\* run_build raises at "where"; gateway: a Gateway call raised
Fails(where, gateway) ==
    /\ pc' = "failed"
    /\ failure' = where
    /\ gatewayFailed' = (gatewayFailed \/ gateway)

---------------------------------------------------------------------------
(* Coordinator.run_build: upload and plan *)

Upload ==
    /\ pc = "start"
    /\ \/ /\ pc' = "planning"
          /\ UNCHANGED << gatewayFailed, failure >>
       \/ /\ pc' = "setup_failed"
          /\ failure' = "setup"
          /\ gatewayFailed' = TRUE
    /\ UNCHANGED << planText, genOut, genAsked >>
    /\ UNCHANGED << max_feedback_loops, formatting, plans, futures, results, order,
                    parts, md, mdVerified, resp, lastStatus, feedback, loops,
                    artifact, verifyCalls, revisePasses, regenCalls >>

Plan ==
    /\ pc = "planning"
    /\ \/ /\ \E text \in PlanTexts :
               /\ planText' = text
               /\ plans' = analyze(text)
          /\ pc' = "generating"
          /\ UNCHANGED << gatewayFailed, failure >>
       \/ /\ Fails("plan", TRUE)
          /\ UNCHANGED << plans, planText >>
    /\ UNCHANGED scratch
    /\ UNCHANGED << max_feedback_loops, formatting, futures, results, order,
                    parts, md, mdVerified, resp, lastStatus, feedback, loops,
                    artifact, verifyCalls, revisePasses, regenCalls >>

---------------------------------------------------------------------------
(* Delegator.run_parallel_generation over utils.parallel_map *)

max_workers(n) == Min(MaxWorkers, Max(MinWorkers, n))

\* tries: the outcome of each worker.generate() call of the task so far
Queued == [ st |-> "queued", text |-> "", collected |-> FALSE, tries |-> << >> ]

\* one worker.generate() call of do_one, with outcome o, ending in state st
Generated(fut, o, st) ==
    [ fut EXCEPT !.st = st,
                 !.text = IF o = GenRaises THEN @ ELSE o,
                 !.tries = Append(@, o) ]

\* a do_one without the except branch: the first exception is the task's
first_generate_once(fut, o) ==
    Generated(fut, o, IF o = GenRaises THEN "exc" ELSE "ok")

\* do_one: the worker.generate() of the try block
first_generate(fut, o) ==
    Generated(fut, o, IF o = GenRaises THEN "retry" ELSE "ok")

\* do_one: the worker.generate() of the except block
second_generate(fut, o) ==
    Generated(fut, o, IF o = GenRaises THEN "exc" ELSE "ok")

\* executor.submit for every task
Submit ==
    /\ pc = "generating"
    /\ futures' = [ i \in 1..Len(plans) |-> Queued ]
    /\ results' = << >>
    /\ order' = << >>
    /\ planText' = << >>
    /\ pc' = "dispatching"
    /\ UNCHANGED scratch
    /\ UNCHANGED << max_feedback_loops, formatting, plans, parts, md, mdVerified,
                    resp, lastStatus, feedback, loops, artifact, verifyCalls,
                    revisePasses, regenCalls, gatewayFailed, failure >>

Busy == { j \in DOMAIN futures : futures[j].st = "retry" }

\* do_one: the first worker.generate() of task i, on a free worker
FirstAttempt(i) ==
    /\ pc = "dispatching"
    /\ futures[i].st = "queued"
    /\ Cardinality(Busy) < max_workers(Len(plans))
    /\ \E o \in GenOutcomes :
         /\ futures' = [ futures EXCEPT ![i] = first_generate(@, o) ]
         /\ gatewayFailed' = (gatewayFailed \/ o = GenRaises)
    /\ UNCHANGED << planText, genOut, genAsked >>
    /\ UNCHANGED << pc, max_feedback_loops, formatting, plans, results, order, parts,
                    md, mdVerified, resp, lastStatus, feedback, loops, artifact,
                    verifyCalls, revisePasses, regenCalls, failure >>

\* do_one: the second worker.generate() of task i, in the except branch
Retry(i) ==
    /\ pc = "dispatching"
    /\ futures[i].st = "retry"
    /\ \E o \in GenOutcomes :
         /\ futures' = [ futures EXCEPT ![i] = second_generate(@, o) ]
         /\ gatewayFailed' = (gatewayFailed \/ o = GenRaises)
    /\ UNCHANGED << planText, genOut, genAsked >>
    /\ UNCHANGED << pc, max_feedback_loops, formatting, plans, results, order, parts,
                    md, mdVerified, resp, lastStatus, feedback, loops, artifact,
                    verifyCalls, revisePasses, regenCalls, failure >>

\* a collection that keeps the future's text and drops the exception
ResultEntry_unmarked(key, fut) == << key, fut.text >>

\* the (key, text) parallel_map appends for a completed future
ResultEntry(key, fut) ==
    << key, IF fut.st = "exc" THEN ErrorMarker ELSE fut.text >>

\* one turn of the as_completed loop: a completed future, in completion order
Collect(i) ==
    /\ pc = "dispatching"
    /\ futures[i].st \in { "ok", "exc" }
    /\ ~futures[i].collected
    /\ results' = Append(results, ResultEntry(plans[i].key, futures[i]))
    /\ order' = Append(order, i)
    /\ futures' = [ futures EXCEPT ![i].collected = TRUE ]
    /\ UNCHANGED << planText, genOut, genAsked >>
    /\ UNCHANGED << pc, max_feedback_loops, formatting, plans, parts, md, mdVerified,
                    resp, lastStatus, feedback, loops, artifact, verifyCalls,
                    revisePasses, regenCalls, gatewayFailed, failure >>

AllCollected == \A i \in DOMAIN futures : futures[i].collected

\* parallel_map returns its results; the executor is gone
ReturnParts ==
    /\ pc = "dispatching"
    /\ AllCollected
    /\ parts' = results
    /\ futures' = << >>
    /\ results' = << >>
    /\ order' = << >>
    /\ pc' = "merging"
    /\ UNCHANGED << planText, genOut, genAsked >>
    /\ UNCHANGED << max_feedback_loops, formatting, plans, md, mdVerified, resp,
                    lastStatus, feedback, loops, artifact, verifyCalls, revisePasses,
                    regenCalls, gatewayFailed, failure >>

---------------------------------------------------------------------------
(* Coordinator.run_build: merge (md_join, or MarkdownFormatterAgent.format) *)

Merge ==
    /\ pc = "merging"
    /\ \/ /\ formatting = "none"
          /\ md' = md_join(Title, parts)
          /\ mdVerified' = FALSE
          /\ pc' = "verifying"
          /\ UNCHANGED << gatewayFailed, failure >>
       \/ /\ formatting # "none"
          /\ \E p \in PolishTexts : md' = Polished(p)
          /\ mdVerified' = FALSE
          /\ pc' = "verifying"
          /\ UNCHANGED << gatewayFailed, failure >>
       \/ /\ formatting # "none"
          /\ Fails("format", TRUE)
          /\ UNCHANGED << md, mdVerified >>
    /\ UNCHANGED << planText, genOut, genAsked >>
    /\ UNCHANGED << max_feedback_loops, formatting, plans, futures, results, order,
                    parts, resp, lastStatus, feedback, loops, artifact, verifyCalls,
                    revisePasses, regenCalls >>

---------------------------------------------------------------------------
(* Coordinator.run_build: one turn of the feedback loop up to the revision *)

\* forced targets that name the first section only
ForcedTargets_first(ps) ==
    TargetList(<< DictTarget(ps[1][1], "", "", "fatal") >>)

ForcedTargets(ps) ==
    TargetList([ i \in 1..Len(ps) |-> DictTarget(ps[i][1], "", "", "fatal") ])

\* the feedback run_build goes on with: an abort is replaced by forced targets
AfterAbort(v, ps) ==
    IF v.status = "abort"
    THEN [ raised |-> FALSE, status |-> "none",
           raw |-> [ text |-> v.raw.text, strict |-> TRUE ],
           targets |-> ForcedTargets(ps), metrics |-> NoMetrics ]
    ELSE v

\* a budget check that is late by one
BudgetExceeded_late(n, limit) == n > limit + 1

BudgetExceeded(n, limit) == n > limit

\* a write that leaves the output file empty
written_nothing(draft) == NoDraft

\* f.write(md): the content of the output file
written(draft) == draft

VerifyStep ==
    /\ pc = "verifying"
    /\ verifyCalls' = verifyCalls + 1
    /\ mdVerified' = TRUE
    /\ regenCalls' = {}
    /\ \/ /\ Fails("verify_gateway", TRUE)
          /\ lastStatus' = "raised"
          /\ UNCHANGED << resp, feedback, loops, artifact >>
       \/ \E text \in BuildResponses :
            LET v == verify(text, SectionKeys(parts))
                fb == AfterAbort(v, parts)
            IN  /\ resp' = text
                /\ lastStatus' = v.status
                /\ IF v.raised
                   THEN /\ Fails("verify", FALSE)
                        /\ UNCHANGED << feedback, loops, artifact >>
                   ELSE /\ feedback' = fb
                        /\ UNCHANGED << gatewayFailed, failure >>
                        /\ IF fb.status = "ok"
                           THEN /\ pc' = "done"
                                /\ artifact' = written(md)
                                /\ UNCHANGED loops
                           ELSE /\ loops' = loops + 1
                                /\ IF BudgetExceeded(loops + 1, max_feedback_loops)
                                   THEN /\ pc' = "done"
                                        /\ artifact' = written(md)
                                   ELSE /\ pc' = "revising"
                                        /\ UNCHANGED artifact
    /\ UNCHANGED << planText, genOut, genAsked >>
    /\ UNCHANGED << max_feedback_loops, formatting, plans, futures, results, order,
                    parts, md, revisePasses >>

---------------------------------------------------------------------------
(* Coordinator.run_build: the revision pass *)

Revise ==
    /\ pc = "revising"
    /\ revisePasses' = revisePasses + 1
    /\ IF Truthy(feedback.targets) /\ SelectRaises(feedback)
       THEN /\ Fails("revise", FALSE)
            /\ UNCHANGED << parts, regenCalls >>
       ELSE \E out \in [ 1..Len(parts) -> GenOutcomes ] :
              LET called == IF Truthy(feedback.targets)
                            THEN RevisedBySelected(parts, feedback)
                            ELSE { i : i \in 1..Len(parts) }
              IN  /\ parts' = IF Truthy(feedback.targets)
                              THEN revise_selected_parts(parts, feedback, out)
                              ELSE revise_parts(parts, out)
                  /\ regenCalls' = called
                  /\ gatewayFailed' =
                       (gatewayFailed \/ \E i \in called : out[i] = GenRaises)
                  /\ pc' = "merging"
                  /\ UNCHANGED failure
    /\ UNCHANGED << planText, genOut, genAsked >>
    /\ UNCHANGED << max_feedback_loops, formatting, plans, futures, results, order,
                    md, mdVerified, resp, lastStatus, feedback, loops, artifact,
                    verifyCalls >>

---------------------------------------------------------------------------
(* A build *)

Next ==
    \/ Upload
    \/ Plan
    \/ Submit
    \/ \E i \in DOMAIN futures : FirstAttempt(i)
    \/ \E i \in DOMAIN futures : Retry(i)
    \/ \E i \in DOMAIN futures : Collect(i)
    \/ ReturnParts
    \/ Merge
    \/ VerifyStep
    \/ Revise

Spec == Init /\ [][Next]_vars

---------------------------------------------------------------------------
(* The verifier alone: verify applied once to every answer of AllResponses *)

VerifyParts ==
    { << << "1. Overview", "g1" >>, << "2. Key Concepts", "g2" >>, << "3. Summary", "g1" >> >>,
      << << "B", "g1" >>, << "A", "g2" >> >>,
      << << "A", "g1" >>, << "A", ErrorMarker >> >> }

VerifyInit ==
    /\ pc = "verify_only"
    /\ max_feedback_loops = LoopsFloor
    /\ formatting = "none"
    /\ plans = << >>
    /\ futures = << >>
    /\ results = << >>
    /\ order = << >>
    /\ parts \in VerifyParts
    /\ md = md_join(Title, parts)
    /\ mdVerified = FALSE
    /\ resp = NoResponse
    /\ lastStatus = "none"
    /\ feedback = NoFeedback
    /\ loops = 0
    /\ artifact = NoDraft
    /\ verifyCalls = 0
    /\ revisePasses = 0
    /\ regenCalls = {}
    /\ gatewayFailed = FALSE
    /\ failure = "none"
    /\ planText = << >>
    /\ genOut = << >>
    /\ genAsked = << >>

VerifyOnce ==
    /\ pc = "verify_only"
    /\ \E text \in AllResponses :
         LET v == verify(text, SectionKeys(parts))
         IN  /\ resp' = text
             /\ lastStatus' = v.status
             /\ feedback' = v
    /\ verifyCalls' = verifyCalls + 1
    /\ mdVerified' = TRUE
    /\ pc' = "verified_only"
    /\ UNCHANGED << planText, genOut, genAsked >>
    /\ UNCHANGED << max_feedback_loops, formatting, plans, futures, results, order,
                    parts, md, loops, artifact, revisePasses, regenCalls,
                    gatewayFailed, failure >>

VerifyNext == VerifyOnce

VerifySpec == VerifyInit /\ [][VerifyNext]_vars

---------------------------------------------------------------------------
(* The revision pass alone: lines 364-367 of run_build applied once to every
   feedback the loop can hand it, recording each generate call *)

\* answers to verify that send run_build to the revision pass or make verify raise
ReviseResponses ==
    { r \in AllResponses :
        \/ r.kind = "text"
        \/ /\ r.kind = "object"
           /\ r.decision \in { "revise", "abort" }
           /\ r.overlap = Num(10)
           /\ r.hcount \in { Num(2), Num(5) } }

ReviseInit ==
    /\ pc = "revise_only"
    /\ max_feedback_loops = 1
    /\ formatting = "none"
    /\ plans = << >>
    /\ futures = << >>
    /\ results = << >>
    /\ order = << >>
    /\ parts \in VerifyParts
    /\ md = md_join(Title, parts)
    /\ mdVerified = TRUE
    /\ resp \in ReviseResponses
    /\ lastStatus = verify(resp, SectionKeys(parts)).status
    /\ lastStatus \in { "needs_revision", "abort" }
    /\ feedback = AfterAbort(verify(resp, SectionKeys(parts)), parts)
    /\ loops = 1
    /\ artifact = NoDraft
    /\ verifyCalls = 1
    /\ revisePasses = 0
    /\ regenCalls = {}
    /\ gatewayFailed = FALSE
    /\ failure = "none"
    /\ planText = << >>
    /\ genOut = << >>
    /\ genAsked = << >>

ReviseOnce ==
    /\ pc = "revise_only"
    /\ revisePasses' = revisePasses + 1
    /\ IF Truthy(feedback.targets) /\ SelectRaises(feedback)
       THEN /\ pc' = "revise_raised"
            /\ failure' = "revise"
            /\ UNCHANGED << parts, regenCalls, genOut, genAsked, gatewayFailed >>
       ELSE \E out \in [ 1..Len(parts) -> GenOutcomes ] :
              LET called == IF Truthy(feedback.targets)
                            THEN RevisedBySelected(parts, feedback)
                            ELSE { i : i \in 1..Len(parts) }
              IN  /\ parts' = IF Truthy(feedback.targets)
                              THEN revise_selected_parts(parts, feedback, out)
                              ELSE revise_parts(parts, out)
                  /\ regenCalls' = called
                  /\ genOut' = [ i \in called |-> out[i] ]
                  /\ genAsked' = IF Truthy(feedback.targets)
                                 THEN selected_asked(parts, feedback)
                                 ELSE revise_asked(parts, feedback.raw)
                  /\ gatewayFailed' =
                       (gatewayFailed \/ \E i \in called : out[i] = GenRaises)
                  /\ pc' = "revised_only"
                  /\ UNCHANGED failure
    /\ UNCHANGED << max_feedback_loops, formatting, plans, futures, results, order,
                    md, mdVerified, resp, lastStatus, feedback, loops, artifact,
                    verifyCalls, planText >>

ReviseNext == ReviseOnce

ReviseSpec == ReviseInit /\ [][ReviseNext]_vars

---------------------------------------------------------------------------
(* The join alone: md_join applied once to every list of MergeInputs *)

MergeKeys == { "1. Overview", "3. Summary", "A", "B" }
MergeSections == { << k, t >> : k \in MergeKeys, t \in GenTexts }
MergeInputs == SeqsUpTo(MergeSections, MaxMergeLen)

MergeInit ==
    /\ pc = "merge_only"
    /\ max_feedback_loops = LoopsFloor
    /\ formatting = "none"
    /\ plans = << >>
    /\ futures = << >>
    /\ results = << >>
    /\ order = << >>
    /\ parts \in MergeInputs
    /\ md = NoDraft
    /\ mdVerified = FALSE
    /\ resp = NoResponse
    /\ lastStatus = "none"
    /\ feedback = NoFeedback
    /\ loops = 0
    /\ artifact = NoDraft
    /\ verifyCalls = 0
    /\ revisePasses = 0
    /\ regenCalls = {}
    /\ gatewayFailed = FALSE
    /\ failure = "none"
    /\ planText = << >>
    /\ genOut = << >>
    /\ genAsked = << >>

MergeOnce ==
    /\ pc = "merge_only"
    /\ md' = md_join(Title, parts)
    /\ pc' = "merged_only"
    /\ UNCHANGED << max_feedback_loops, formatting, plans, futures, results, order,
                    parts, mdVerified, resp, lastStatus, feedback, loops, artifact,
                    verifyCalls, revisePasses, regenCalls, gatewayFailed, failure,
                    planText, genOut, genAsked >>

MergeNext == MergeOnce

MergeSpec == MergeInit /\ [][MergeNext]_vars

---------------------------------------------------------------------------
(* Claims *)

\* every identity a list of targets names, as revise_selected_parts reads it
TargetIdentities(fb) == Range(ExtractKeys(fb.targets.items))
Identities(ps) == Range(SectionKeys(ps))
Positions(ps) == { i : i \in 1..Len(ps) }

\* C1: for every parsed payload whose hallucination_count is at least 3, the
\* status verify returns is abort, whatever the decision and the overlap_ratio.
C1_CeilingAborts ==
    ( /\ verifyCalls > 0
      /\ resp.kind = "object"
      /\ lastStatus # "raised"
      /\ resp.hcount.t = "num"
      /\ resp.hcount.v >= HallucinationCeiling )
    => lastStatus = "abort"

\* C2: once the upload has succeeded, run_build never raises, whatever Gateway
\* call fails: it never ends in the failed position.
C2_NeverFailsOnceBegun == pc # "failed"

\* C3: for every text the Gateway returns, verify returns a Verdict whose status
\* is ok, needs_revision or abort and never raises; text that is no JSON is
\* classified by the keyword fallback.
C3_VerifyTotal ==
    ( verifyCalls > 0 /\ failure # "verify_gateway" )
    => /\ lastStatus \in { "ok", "needs_revision", "abort" }
       /\ resp.kind = "text" => lastStatus = fallback_status(resp.words)

\* the step of run_build in which verify returns abort
AbortVerdictStep ==
    /\ pc = "verifying"
    /\ verifyCalls' = verifyCalls + 1
    /\ lastStatus' = "abort"

\* an abort leads on to a pass that regenerates every section, one loop spent
AbortRewrites ==
    /\ pc' = "revising"
    /\ loops' = loops + 1
    /\ feedback'.targets.list
    /\ TargetIdentities(feedback') = Identities(parts)

FullPassBeforeVerify ==
    /\ [][ (pc = "revising" /\ lastStatus = "abort")
           => (pc' = "merging" /\ regenCalls' = Positions(parts)
               /\ verifyCalls' = verifyCalls) ]_vars
    /\ [](( pc = "verifying" /\ lastStatus = "abort" ) => regenCalls = Positions(parts))

\* C4 as stated: whenever verify yields abort, the build does not end on that
\* verdict: every section is a target, one full regeneration pass runs before the
\* next verify call, and the loop counter grows by exactly one.
C4_AbortAlwaysRewrites ==
    /\ [][ AbortVerdictStep => AbortRewrites ]_vars
    /\ FullPassBeforeVerify

\* C4 amended: the same whenever the loop counter is still below
\* max_feedback_loops when verify yields abort; with the counter already at
\* max_feedback_loops the abort ends the build with the current draft.
C4_AbortRewritesWithinBudget ==
    /\ [][ (AbortVerdictStep /\ loops < max_feedback_loops) => AbortRewrites ]_vars
    /\ [][ (AbortVerdictStep /\ loops >= max_feedback_loops)
           => (pc' = "done" /\ artifact' = md /\ loops' = loops + 1) ]_vars
    /\ FullPassBeforeVerify

C4_Witness ==
    /\ pc = "verifying"
    /\ lastStatus = "abort"
    /\ verifyCalls = 1
    /\ loops = 1
    /\ Len(parts) = 3
    /\ regenCalls = Positions(parts)

\* C5: a build makes at most max_feedback_loops revision passes and at most
\* max_feedback_loops + 1 verify calls; the first verify call spends no budget
\* (a finished build has verified once more than it has revised).
C5_RevisionBudget ==
    /\ revisePasses <= max_feedback_loops
    /\ verifyCalls <= max_feedback_loops + 1
    /\ pc = "done" => verifyCalls = revisePasses + 1

C5_Witness ==
    /\ pc = "done"
    /\ max_feedback_loops = MaxLoopsInput
    /\ revisePasses = max_feedback_loops
    /\ verifyCalls = max_feedback_loops + 1

\* C6: provided every Gateway call returns, every build ends in DONE with an
\* artifact: short of DONE the build always has a next step.
C6_Terminates ==
    gatewayFailed \/ (pc = "done" /\ artifact = md) \/ (pc # "done" /\ ENABLED Next)

\* C7: with max_feedback_loops = 0, needs_revision on the first verify call ends
\* the build at once: no regeneration, no second verify call, and the artifact
\* is the draft that was verified.
C7_ZeroBudgetStops ==
    ( max_feedback_loops = 0 /\ verifyCalls >= 1 /\ lastStatus = "needs_revision" )
    => /\ pc = "done"
       /\ verifyCalls = 1
       /\ revisePasses = 0
       /\ regenCalls = {}
       /\ loops = 1
       /\ artifact = md
       /\ mdVerified

C7_Witness ==
    /\ max_feedback_loops = 0
    /\ lastStatus = "needs_revision"
    /\ pc = "done"
    /\ artifact.kind = "joined"

\* the tasks whose two attempts both raised
FailedTasks == { i \in DOMAIN futures : futures[i].st = "exc" }

\* C8: when exactly one task of a batch fails on both attempts, parallel_map
\* ends with exactly one entry per task, the failed task's content is the
\* error marker and every other task's content is what its own generate call
\* returned, in every order of completion.
C8_FailureIsolated ==
    ( pc = "dispatching" /\ AllCollected /\ Cardinality(FailedTasks) = 1 )
    => /\ Len(results) = Len(plans)
       /\ Len(order) = Len(plans)
       /\ Range(order) = DOMAIN plans
       /\ \A j \in DOMAIN results :
            /\ results[j][1] = plans[order[j]].key
            /\ order[j] \in FailedTasks => results[j][2] = ErrorMarker
            /\ order[j] \notin FailedTasks => results[j][2] = futures[order[j]].text

C8_Witness ==
    /\ pc = "dispatching"
    /\ AllCollected
    /\ Len(plans) = 3
    /\ FailedTasks = { 2 }
    /\ order = << 3, 2, 1 >>
    /\ futures[1].text # futures[3].text

\* C9: a targeted pass (revise_selected_parts with a non-empty target set T)
\* returns the same identities in the same order, and every section whose
\* identity is not in T keeps its content.
C9_TargetedFrame ==
    [][ ( /\ pc = "revising"
          /\ pc' = "merging"
          /\ Truthy(feedback.targets)
          /\ TargetIdentities(feedback) # {} )
        => /\ SectionKeys(parts') = SectionKeys(parts)
           /\ \A i \in DOMAIN parts :
                parts[i][1] \notin TargetIdentities(feedback) => parts'[i] = parts[i] ]_vars

C9_Witness ==
    /\ pc = "merging"
    /\ revisePasses = 1
    /\ lastStatus = "needs_revision"
    /\ TargetIdentities(feedback) = { "1. Overview" }
    /\ Identities(parts) = Range(DefaultLines)
    /\ Cardinality(regenCalls) = 1
    /\ \E i \in DOMAIN parts : parts[i] = << "1. Overview", "g2" >>

\* C10: every target identity of a Verdict the revision pass receives is the
\* identity of a current section.
C10_TargetsExist ==
    ( pc = "revising" /\ feedback.targets.list )
    => TargetIdentities(feedback) \subseteq Identities(parts)

\* no identity occurs twice in the list of keys
Distinct(keys) ==
    \A i, j \in DOMAIN keys : i # j => keys[i] # keys[j]

PlanKeys == [ i \in 1..Len(plans) |-> plans[i].key ]

\* C11: at every entry to verifying, parts holds exactly one section per
\* planned identity: no identity twice, none missing, none added.
C11_SectionSet ==
    pc = "verifying"
    => /\ Distinct(SectionKeys(parts))
       /\ Identities(parts) = Range(PlanKeys)
       /\ Len(parts) = Cardinality(Range(PlanKeys))

\* C12: the plans one analyze call returns have pairwise distinct keys.
C12_DistinctIdentities ==
    pc = "generating" => Distinct(PlanKeys)

\* the generate calls of the last pass that raised
RaisedCalls == { i \in DOMAIN genOut : genOut[i] = GenRaises }

\* C13: in a revision pass (revise_parts or revise_selected_parts) in which
\* the regeneration of some section raises, the pass still returns: every
\* section whose regeneration raised keeps its prior content, every other
\* section asked for gets what its generate call returned, every section not
\* asked for is passed through, and the identities and their order are kept.
C13_KeptOnFailure ==
    [][ ( pc = "revise_only" /\ RaisedCalls' # {} )
        => /\ pc' = "revised_only"
           /\ SectionKeys(parts') = SectionKeys(parts)
           /\ \A i \in DOMAIN parts :
                /\ i \in RaisedCalls' => parts'[i] = parts[i]
                /\ i \in DOMAIN genOut' \ RaisedCalls'
                     => parts'[i] = << parts[i][1], genOut'[i] >>
                /\ i \notin DOMAIN genOut' => parts'[i] = parts[i] ]_vars

C13_Witness ==
    /\ pc = "revised_only"
    /\ ~Truthy(feedback.targets)
    /\ RaisedCalls = { 3 }
    /\ genOut[1] = "g2"
    /\ genOut[2] = "g1"
    /\ parts = << << "1. Overview", "g2" >>, << "2. Key Concepts", "g1" >>,
                  << "3. Summary", "g1" >> >>

\* C14: for every parsed payload whose overlap_ratio is at least 0.25, whose
\* hallucination_count is at most 1 (an absent count is read as 0) and whose
\* decision, in lower case, is not abort, the status verify returns is ok,
\* also when the decision is revise or absent.
C14_LenientBandApproves ==
    ( /\ verifyCalls > 0
      /\ resp.kind = "object"
      /\ lastStatus # "raised"
      /\ resp.overlap.t = "num"
      /\ resp.overlap.v >= LenientOverlap
      /\ resp.hcount.t \in { "num", "absent" }
      /\ resp.hcount.v <= LenientHallucinations
      /\ Lower(resp.decision) # "abort" )
    => lastStatus = "ok"

C14_Witness ==
    /\ pc = "verified_only"
    /\ resp.kind = "object"
    /\ resp.decision = "revise"
    /\ resp.overlap = Num(25)
    /\ resp.hcount = Num(1)
    /\ lastStatus = "ok"

\* the lines of a plan text that are not blank, in output order
IsUsableLine(l) == Strip(l) # ""
UsableLines(text) == SelectSeq(text, IsUsableLine)

\* what analyze is to return for the text it got
PlannerContract ==
    pc = "generating"
    => /\ Len(plans) >= 1
       /\ UsableLines(planText) = << >> => PlanKeys = DefaultLines
       /\ UsableLines(planText) # << >>
            => /\ Len(plans) = Len(UsableLines(planText))
               /\ \A i \in DOMAIN plans : plans[i].key = Strip(UsableLines(planText)[i])

\* the default plan, three generated sections, and pass as the first verdict
DefaultPlanPassed ==
    /\ PlanKeys = DefaultLines
    /\ Len(parts) = 3
    /\ \A i \in DOMAIN parts : parts[i][2] \in GenTexts
    /\ verifyCalls = 1
    /\ resp.kind = "object"
    /\ Lower(resp.decision) = "pass"
    /\ lastStatus = "ok"

\* the build has ended in the first turn of the loop
EndedAtIterationZero ==
    /\ pc = "done"
    /\ loops = 0
    /\ revisePasses = 0
    /\ regenCalls = {}
    /\ artifact = md

\* a joined document of the three default subheadings in ascending order
ThreeHeadingsAscending(doc) ==
    /\ doc.kind = "joined"
    /\ Len(doc.sections) = 3
    /\ \A i \in 1..2 : KeyRank(doc.sections[i][1]) < KeyRank(doc.sections[i + 1][1])
    /\ { doc.sections[i][1] : i \in 1..3 } = Range(DefaultLines)

\* C15 (as stated): analyze always returns a non-empty plan, the default
\* three-unit plan for a text without a usable line and otherwise one plan per
\* usable line in output order; a build with the default plan, three
\* successful generations and pass as the first verdict ends at iteration 0
\* after one verify call and no revision, and its document has exactly three
\* subheadings in ascending identity order.
C15_DefaultBuildThreeHeadings ==
    /\ PlannerContract
    /\ DefaultPlanPassed => ( EndedAtIterationZero /\ ThreeHeadingsAscending(artifact) )

\* C15 (amended): the same, the three subheadings being claimed for formatting
\* none only; with formatting light the document is the Gateway's polished text.
C15_DefaultBuildEndsAtZero ==
    /\ PlannerContract
    /\ DefaultPlanPassed
         => /\ EndedAtIterationZero
            /\ formatting = "none" => ThreeHeadingsAscending(artifact)

C15_Witness ==
    /\ DefaultPlanPassed
    /\ formatting = "none"
    /\ pc = "done"
    /\ artifact.sections = << << "1. Overview", "g1" >>, << "2. Key Concepts", "g2" >>,
                              << "3. Summary", "g1" >> >>
    /\ resp.overlap = Num(60)

\* every order the sections of ps can be given in
Perms(ps) ==
    { [ i \in 1..Len(ps) |-> ps[f[i]] ] : f \in Permutations(1..Len(ps)) }

StrictlyAscending(secs) ==
    \A i \in 1..(Len(secs) - 1) : KeyRank(secs[i][1]) < KeyRank(secs[i + 1][1])

\* C16: for every section list without a repeated identity, md_join gives the
\* same document for the list and for each of its permutations (so also when
\* called twice on the same list), the document holds exactly the sections
\* given, and they are in strictly ascending identity order.
C16_JoinOrderInsensitive ==
    ( pc = "merged_only" /\ Distinct(SectionKeys(parts)) )
    => /\ \A q \in Perms(parts) : md_join(Title, q) = md
       /\ Range(md.sections) = Range(parts)
       /\ Len(md.sections) = Len(parts)
       /\ StrictlyAscending(md.sections)

C16_Witness ==
    /\ pc = "merged_only"
    /\ parts = << << "B", "g1" >>, << "3. Summary", "g2" >>, << "A", "g1" >> >>
    /\ md.sections = << << "3. Summary", "g2" >>, << "A", "g1" >>, << "B", "g1" >> >>

\* the generate calls of a task that returned a text, in call order
Successes(fut) == SelectSeq(fut.tries, LAMBDA o : o # GenRaises)

\* the place of task i in results
PlaceOf(i) == CHOOSE j \in DOMAIN order : order[j] = i

\* C17: for each task of a batch the generator is called at most twice, a
\* second time exactly when the first call raised; the content collected for
\* the task is the result of its first call that returned, and the error
\* marker exactly when both calls raised.
C17_RetryDiscipline ==
    \A i \in DOMAIN futures :
      LET fut == futures[i]
      IN  /\ Len(fut.tries) <= 2
          /\ Len(fut.tries) = 2 => fut.tries[1] = GenRaises
          /\ fut.st \in { "ok", "exc" }
               => /\ Len(fut.tries) >= 1
                  /\ fut.tries[1] = GenRaises => Len(fut.tries) = 2
          /\ fut.collected
               => /\ i \in Range(order)
                  /\ results[PlaceOf(i)][1] = plans[i].key
                  /\ Successes(fut) # << >>
                       => results[PlaceOf(i)][2] = Successes(fut)[1]
                  /\ Successes(fut) = << >>
                       => /\ results[PlaceOf(i)][2] = ErrorMarker
                          /\ fut.tries = << GenRaises, GenRaises >>

C17_Witness ==
    /\ pc = "dispatching"
    /\ AllCollected
    /\ Len(plans) = 3
    /\ futures[1].tries = << "g1" >>
    /\ futures[2].tries = << GenRaises, "g2" >>
    /\ futures[3].tries = << GenRaises, GenRaises >>
    /\ Range(results) = { << "1. Overview", "g1" >>, << "2. Key Concepts", "g2" >>,
                          << "3. Summary", ErrorMarker >> }

\* the phase of the build at each position of run_build; an exception that
\* leaves run_build, and a setup that fails before planning, are no phase
Phase(p) ==
    CASE p = "planning"    -> "PLANNING"
      [] p = "generating"  -> "GENERATING"
      [] p = "dispatching" -> "GENERATING"
      [] p = "merging"     -> "MERGING"
      [] p = "verifying"   -> "VERIFYING"
      [] p = "revising"    -> "REVISING"
      [] p = "done"        -> "DONE"
      [] OTHER             -> p

PhaseEdges ==
    { << "start", "PLANNING" >>, << "start", "setup_failed" >>,
      << "PLANNING", "GENERATING" >>, << "GENERATING", "GENERATING" >>,
      << "GENERATING", "MERGING" >>, << "MERGING", "VERIFYING" >>,
      << "VERIFYING", "REVISING" >>, << "VERIFYING", "DONE" >>,
      << "REVISING", "MERGING" >> }

\* C18: a build passes PLANNING, GENERATING, MERGING, VERIFYING in that order;
\* REVISING is entered only from VERIFYING and is followed by MERGING, which is
\* followed by VERIFYING; DONE is entered only from VERIFYING and is left by
\* no step; a verdict of ok leads from VERIFYING straight to DONE with the
\* draft unchanged and written as it was verified.
C18_PhaseOrder ==
    [][ /\ pc' # pc => << Phase(pc), Phase(pc') >> \in PhaseEdges
        /\ ( pc = "verifying" /\ lastStatus' = "ok" )
             => ( pc' = "done" /\ md' = md /\ parts' = parts /\ artifact' = md ) ]_vars

\* the entries parallel_map returns when the tasks complete in task order
InTaskOrder == [ i \in 1..Len(futures) |-> ResultEntry(plans[i].key, futures[i]) ]

Ascending(secs) ==
    \A i \in 1..(Len(secs) - 1) : KeyRank(secs[i][1]) <= KeyRank(secs[i + 1][1])

\* C19: with formatting none, the draft md_join makes of the results of a
\* batch is the same in whatever order the tasks completed (it is the draft of
\* the same entries taken in task order), and its sections are sorted by
\* identity.
C19_CompletionOrderIndependent ==
    ( pc = "dispatching" /\ AllCollected /\ formatting = "none" )
    => /\ md_join(Title, results) = md_join(Title, InTaskOrder)
       /\ Ascending(md_join(Title, results).sections)

\* C20: when the targets of the feedback yield no identity (no targets, or
\* no entry with a usable key), the revision pass calls the generator for
\* every section, each prompt carrying the feedback's raw text, the section's
\* identity and its current text, and returns for each section what its call
\* gave (the prior text where the call raised).
C20_FullPassFallback ==
    [][ ( /\ pc = "revise_only"
          /\ feedback.targets.list
          /\ TargetIdentities(feedback) = {} )
        => /\ pc' = "revised_only"
           /\ regenCalls' = Positions(parts)
           /\ DOMAIN genOut' = Positions(parts)
           /\ DOMAIN genAsked' = Positions(parts)
           /\ Len(parts') = Len(parts)
           /\ \A i \in Positions(parts) :
                /\ genAsked'[i].section = parts[i][1]
                /\ genAsked'[i].feedback = feedback.raw
                /\ genAsked'[i].current = parts[i][2]
                /\ parts'[i] = << parts[i][1],
                                  IF genOut'[i] = GenRaises THEN parts[i][2]
                                  ELSE genOut'[i] >> ]_vars

C20_Witness ==
    /\ pc = "revised_only"
    /\ feedback.targets = TargetList(<< DictTarget("", "", "", "fix") >>)
    /\ Len(parts) = 3
    /\ regenCalls = { 1, 2, 3 }
    /\ \A i \in 1..3 : genOut[i] = "g2" /\ parts[i][2] = "g2"
    /\ \A i \in 1..3 : genAsked[i].feedback = feedback.raw

\* C21: the output file is written only at DONE, and what is written is the
\* draft md that the last verify call was given: md has not been assigned
\* since that call, so no draft of a revision pass and re-merge is written
\* unverified, whether the loop ended on ok or on the exhausted budget.
C21_WrittenDraftWasVerified ==
    /\ pc = "done" => ( artifact = md /\ mdVerified /\ verifyCalls >= 1 )
    /\ pc # "done" => artifact = NoDraft

C21_Witness ==
    /\ pc = "done"
    /\ max_feedback_loops = 1
    /\ revisePasses = 1
    /\ verifyCalls = 2
    /\ lastStatus = "needs_revision"
    /\ artifact = md
    /\ artifact.kind = "joined"
    /\ \E i \in DOMAIN parts : parts[i][2] = "g2"

=============================================================================
